---- MODULE Spec2Model ----
(***************************************************************************)
(* Model of the ETL engine of db-migration-framework (Vertica ->           *)
(* PostgreSQL): the CLI's migrateTable / migrateCategoryTable pipeline,    *)
(* the hierarchical ordering pass sortCategoriesHierarchically and the     *)
(* adapters' insertBatch / getBatchData / getRowCount.                     *)
(*                                                                         *)
(* Six specifications share the module:                                    *)
(*   SpecSort   sortCategoriesHierarchically applied to every permutation  *)
(*              of every acyclic category forest with ids 1..n             *)
(*   SpecBatch  PostgreSQLAdapter / VerticaAdapter insertBatch under every *)
(*              outcome of the driver's BEGIN / INSERT / COMMIT / ROLLBACK *)
(*   Spec       migrateTable, one action per awaited step                  *)
(*   SpecTransform  the row transformation of migrateTable applied to      *)
(*              every small source row under every target schema           *)
(*   SpecAdapter  one adapter under any sequence of connect, disconnect,   *)
(*              testConnection and executeQuery calls                      *)
(*   SpecCli    the commands migrate-table, migrate-all and validate, one  *)
(*              action per awaited step, with the adapters' connect /      *)
(*              disconnect / testConnection                                *)
(***************************************************************************)
EXTENDS Integers, Sequences, FiniteSets, TLC

VARIABLES
    categories,   \* sortCategoriesHierarchically: the argument
    sortedData,   \* sortCategoriesHierarchically: the returned array
    sortPc,       \* "idle" before the call, "done" after it
    ibAdapter,    \* insertBatch: the adapter it is called on
    ibData,       \* insertBatch: the rows handed in
    ibDriver,     \* insertBatch: what the driver answers to each statement
    ibCall,       \* insertBatch: NoCall, or how the call ended
    pc,           \* migrateTable: the step it is at
    sourceTable,  \* migrateTable: the source table's name
    sourceRows,   \* the rows of the source table
    dryRun,       \* options.dryRun
    batchSize,    \* options.batchSize
    continueOnError, \* config.migration.settings.continue_on_error
    totalRows,    \* migrateTable: totalRows
    rowCount,     \* what sourceAdapter.getRowCount returned (NoCount before)
    offset,       \* migrateTable: offset
    migratedRows, \* migrateTable: migratedRows
    result,       \* migrateTable: the BatchResult of the latest insertBatch
    reads,        \* the getBatchData calls made, with the page each returned
    writes,       \* the insertBatch calls made, with their data and outcome
    driverErrors, \* migrateTable: the steps at which an adapter's query threw
    events,       \* migrateTable: start and end of each read, transform, write
    cancelledAt,  \* pages read when cancellation was requested (NoCancel before)
    trTable,      \* row transformation: the source table's name
    trRow,        \* row transformation: the source row (source column -> value)
    trSchema,     \* row transformation: the introspected target columns
    trBatch,      \* row transformation: transformedData for sourceData = [trRow]
    trPc,         \* "idle" before the transformation, "done" after it
    cmd,          \* CLI: the command run
    cliPc,        \* CLI: the step the command's action is at
    adapterState, \* CLI: connection / client, pool and isConnected of each adapter
    connectOk,    \* CLI: the adapters whose connect() has succeeded
    disconnectCalls, \* CLI: the adapters disconnect() has been called on
    testCalls,    \* CLI: how testConnection() ended on each adapter
    attempts,     \* the migrateTable calls made so far: table index and outcome
    successCount, \* migrate-all: successCount
    failureCount, \* migrate-all: failureCount
    exitCode,     \* CLI: the process exit status (Running before the end)
    adKind,       \* adapter lifecycle: "vertica" or "postgresql"
    adState,      \* adapter lifecycle: connection / client, pool, isConnected
    adLast,       \* adapter lifecycle: the latest call, the state it began in, its end
    adCalls       \* adapter lifecycle: the number of calls made

sortVars == <<categories, sortedData, sortPc>>

batchVars == <<ibAdapter, ibData, ibDriver, ibCall>>

migrateVars == <<pc, sourceTable, sourceRows, dryRun, batchSize, continueOnError,
                 totalRows, rowCount, offset, migratedRows, result, reads, writes,
                 driverErrors, events, cancelledAt>>

transformVars == <<trTable, trRow, trSchema, trBatch, trPc>>

lifeVars == <<adKind, adState, adLast, adCalls>>

commandVars == <<cmd, cliPc, adapterState, connectOk, disconnectCalls, testCalls,
                 attempts, successCount, failureCount, exitCode>>

cliVars == <<commandVars, lifeVars>>

vars == <<categories, sortedData, sortPc, ibAdapter, ibData, ibDriver, ibCall,
          pc, sourceTable, sourceRows, dryRun, batchSize, continueOnError,
          totalRows, rowCount, offset, migratedRows, result, reads, writes,
          driverErrors, events, cancelledAt,
          trTable, trRow, trSchema, trBatch, trPc,
          cmd, cliPc, adapterState, connectOk, disconnectCalls, testCalls,
          attempts, successCount, failureCount, exitCode,
          adKind, adState, adLast, adCalls>>

----------------------------------------------------------------------------
(* Bounds *)

\* largest number of rows of a category set handed to the ordering pass
MaxCats == 4

\* largest number of rows of a batch handed to insertBatch on its own
MaxBatchRows == 5

\* largest number of rows of a migrated source table
MaxRows == 3

\* largest options.batchSize
MaxBatchSize == 2

\* the null / undefined parent_id (ids are 1, 2, ...)
Null == 0

----------------------------------------------------------------------------
(* Sequences *)

Range(s) == {s[i] : i \in DOMAIN s}

Perms(n) == {p \in [1..n -> 1..n] : \A i, j \in 1..n : i # j => p[i] # p[j]}

Reverse(s) == [i \in 1..Len(s) |-> s[Len(s) + 1 - i]]

----------------------------------------------------------------------------
(* sortCategoriesHierarchically *)

\* the comparator handed to childCategories.sort
CompareCategories(a, b) ==
    IF a.parent_id = b.id THEN 1
    ELSE IF b.parent_id = a.id THEN -1
    ELSE a.parent_id - b.parent_id

\* Array.prototype.sort as the runtime (V8, arrays shorter than 64) runs it:
\* the length of the initial run, a strictly descending run being reversed
RECURSIVE RunEnd(_, _, _)
RunEnd(w, idx, isDescending) ==
    IF idx > Len(w) THEN Len(w)
    ELSE LET order == CompareCategories(w[idx], w[idx - 1])
         IN IF (isDescending /\ order >= 0) \/ (~isDescending /\ order < 0)
            THEN idx - 1
            ELSE RunEnd(w, idx + 1, isDescending)

CountAndMakeRun(w) ==
    IF Len(w) < 2 THEN [run |-> Len(w), work |-> w]
    ELSE LET isDescending == CompareCategories(w[2], w[1]) < 0
             runLength    == RunEnd(w, 3, isDescending)
         IN [run  |-> runLength,
             work |-> IF isDescending
                      THEN Reverse(SubSeq(w, 1, runLength)) \o SubSeq(w, runLength + 1, Len(w))
                      ELSE w]

\* the insertion point of pivot in the sorted prefix w[left..right-1]
RECURSIVE BinarySearch(_, _, _, _)
BinarySearch(w, pivot, left, right) ==
    IF left >= right THEN left
    ELSE LET mid == left + ((right - left) \div 2)
         IN IF CompareCategories(pivot, w[mid]) < 0
            THEN BinarySearch(w, pivot, left, mid)
            ELSE BinarySearch(w, pivot, mid + 1, right)

RECURSIVE BinaryInsertionSort(_, _)
BinaryInsertionSort(w, start) ==
    IF start > Len(w) THEN w
    ELSE LET pivot == w[start]
             left  == BinarySearch(w, pivot, 1, start)
             moved == SubSeq(w, 1, left - 1) \o <<pivot>> \o SubSeq(w, left, start - 1)
                          \o SubSeq(w, start + 1, Len(w))
         IN BinaryInsertionSort(moved, start + 1)

\* mutant: the sort call left out
SortChildrenMutNoSort(childCategories) == childCategories

\* childCategories.sort(comparator)
SortChildren(childCategories) ==
    IF Len(childCategories) < 2 THEN childCategories
    ELSE LET r == CountAndMakeRun(childCategories)
         IN BinaryInsertionSort(r.work, r.run + 1)

IsRoot(category) == category.parent_id = Null

IsChild(category) == category.parent_id # Null

\* mutant: the two groups put together in the other order
sortCategoriesMutChildrenFirst(cats) ==
    SortChildren(SelectSeq(cats, IsChild)) \o SelectSeq(cats, IsRoot)

sortCategoriesHierarchically(cats) ==
    LET rootCategories  == SelectSeq(cats, IsRoot)
        childCategories == SelectSeq(cats, IsChild)
    IN rootCategories \o SortChildren(childCategories)

----------------------------------------------------------------------------
(* insertBatch (PostgreSQLAdapter, VerticaAdapter) *)

Adapters == {"postgresql", "vertica"}

\* what the driver does with one statement
StmtOutcomes == {"ok", "fail"}

\* what the driver does with one row's INSERT: it runs, the database rejects
\* the row (constraint, type), or the connection fails
RowOutcomes == {"ok", "constraint", "connection"}

\* the Error the driver throws for an outcome; an Error carries a message
DriverError(outcome) ==
    IF outcome = "constraint" THEN [message |-> "constraint violation"]
    ELSE [message |-> "connection failure"]

NotConnectedError == [message |-> "Database not connected"]

\* one statement sent to the driver: INSERTs carry the (one-based) position
\* of their row in the batch, the others 0
Stmt(text, row, ok) == [stmt |-> text, row |-> row, ok |-> ok]

BatchResult(success, processedRows, errors) ==
    [success |-> success, processedRows |-> processedRows, errors |-> errors]

\* insertBatch returned a BatchResult / raised to its caller
Returned(res, statements) ==
    [how |-> "returned", result |-> res, statements |-> statements]

Raised(error, statements) ==
    [how |-> "raised", error |-> error, statements |-> statements]

\* mutant: processedRows++ placed before the query, so that rejected rows
\* are counted too
RECURSIVE InsertLoopMutCountFirst(_, _, _)
InsertLoopMutCountFirst(driver, i, acc) ==
    IF i > Len(driver.rows) THEN acc
    ELSE IF driver.rows[i] = "ok"
         THEN InsertLoopMutCountFirst(driver, i + 1,
                  [acc EXCEPT !.processedRows = @ + 1,
                              !.statements = Append(@, Stmt("INSERT", i, TRUE))])
         ELSE InsertLoopMutCountFirst(driver, i + 1,
                  [acc EXCEPT !.processedRows = @ + 1,
                              !.errors = Append(@, DriverError(driver.rows[i])),
                              !.statements = Append(@, Stmt("INSERT", i, FALSE))])

\* for (const row of data) { try { query; processedRows++ } catch { errors.push } }
RECURSIVE InsertLoop(_, _, _)
InsertLoop(driver, i, acc) ==
    IF i > Len(driver.rows) THEN acc
    ELSE IF driver.rows[i] = "ok"
         THEN InsertLoop(driver, i + 1,
                  [acc EXCEPT !.processedRows = @ + 1,
                              !.statements = Append(@, Stmt("INSERT", i, TRUE))])
         ELSE InsertLoop(driver, i + 1,
                  [acc EXCEPT !.errors = Append(@, DriverError(driver.rows[i])),
                              !.statements = Append(@, Stmt("INSERT", i, FALSE))])

\* the catch block of insertBatch: ROLLBACK (awaited, not guarded), then the
\* failure result with the rows counted so far
CatchBlock(adapter, driver, error, acc) ==
    IF ~driver.connected
    THEN IF adapter = "postgresql"
         THEN Returned(BatchResult(FALSE, acc.processedRows, Append(acc.errors, error)),
                       acc.statements)
         ELSE Raised(NotConnectedError, acc.statements)
    ELSE IF driver.rollback = "ok"
         THEN Returned(BatchResult(FALSE, acc.processedRows, Append(acc.errors, error)),
                       Append(acc.statements, Stmt("ROLLBACK", 0, TRUE)))
         ELSE Raised(DriverError("connection"),
                     Append(acc.statements, Stmt("ROLLBACK", 0, FALSE)))

\* insertBatch(tableName, data, schema); driver.rows has one outcome per row
InsertBatch(adapter, data, driver) ==
    LET start == [processedRows |-> 0, errors |-> <<>>, statements |-> <<>>]
    IN IF Len(data) = 0 THEN Returned(BatchResult(TRUE, 0, <<>>), <<>>)
       ELSE IF ~driver.connected
            THEN CatchBlock(adapter, driver, NotConnectedError, start)
       ELSE IF driver.begin = "fail"
            THEN CatchBlock(adapter, driver, DriverError("connection"),
                            [start EXCEPT !.statements = <<Stmt("BEGIN", 0, FALSE)>>])
       ELSE LET acc == InsertLoop(driver, 1,
                           [start EXCEPT !.statements = <<Stmt("BEGIN", 0, TRUE)>>])
            IN IF driver.commit = "ok"
               THEN Returned(BatchResult(acc.errors = <<>>, acc.processedRows, acc.errors),
                             Append(acc.statements, Stmt("COMMIT", 0, TRUE)))
               ELSE CatchBlock(adapter, driver, DriverError("connection"),
                               [acc EXCEPT !.statements = Append(@, Stmt("COMMIT", 0, FALSE))])

\* every answer the driver can give to a batch of n rows
DriverOutcomes(n) ==
    [connected : BOOLEAN, begin : StmtOutcomes, rows : [1..n -> RowOutcomes],
     commit : StmtOutcomes, rollback : StmtOutcomes]

NoCall == [how |-> "none", statements |-> <<>>]

BatchIdle ==
    /\ ibAdapter = "postgresql"
    /\ ibData = <<>>
    /\ ibDriver = [connected |-> TRUE, begin |-> "ok", rows |-> <<>>,
                   commit |-> "ok", rollback |-> "ok"]
    /\ ibCall = NoCall

\* migrateTable not running
NoCount == -1

NoResult == [success |-> TRUE, processedRows |-> 0, errors |-> <<>>]

\* no cancellation requested
NoCancel == -1

MigrateIdle ==
    /\ pc = "idle"
    /\ sourceTable = "MODULES"
    /\ sourceRows = <<>>
    /\ dryRun = FALSE
    /\ batchSize = 1
    /\ continueOnError = FALSE
    /\ totalRows = 0
    /\ rowCount = NoCount
    /\ offset = 0
    /\ migratedRows = 0
    /\ result = NoResult
    /\ reads = <<>>
    /\ writes = <<>>
    /\ driverErrors = {}
    /\ events = <<>>
    /\ cancelledAt = NoCancel

\* the row transformation not running
TransformIdle ==
    /\ trTable = "MODULES"
    /\ trRow = <<>>
    /\ trSchema = <<>>
    /\ trBatch = <<>>
    /\ trPc = "done"

\* a new adapter: no connection / client, no pool, isConnected = false
AdapterNew == [connection |-> FALSE, pool |-> FALSE, isConnected |-> FALSE]

\* testConnection() not called
NoTest == [how |-> "none", value |-> FALSE, probed |-> "none"]

\* the exit status of a process that has not ended
Running == -1

\* no call made on the adapter yet
NoLifeCall == [op |-> "none", before |-> AdapterNew, raised |-> FALSE, error |-> "none"]

\* no adapter exercised on its own
LifeIdle ==
    /\ adKind = "vertica"
    /\ adState = AdapterNew
    /\ adLast = NoLifeCall
    /\ adCalls = 0

\* no CLI command running
CommandIdle ==
    /\ cmd = "validate"
    /\ cliPc = "exited"
    /\ adapterState = [a \in {"source", "target"} |-> AdapterNew]
    /\ connectOk = {}
    /\ disconnectCalls = {}
    /\ testCalls = [a \in {"source", "target"} |-> NoTest]
    /\ attempts = <<>>
    /\ successCount = 0
    /\ failureCount = 0
    /\ exitCode = Running

\* neither a command nor a lone adapter running
CliIdle == CommandIdle /\ LifeIdle

----------------------------------------------------------------------------
(* SpecBatch *)

BatchInit ==
    /\ ibAdapter \in Adapters
    /\ \E n \in 0..MaxBatchRows :
          /\ ibData = [i \in 1..n |-> i]
          /\ ibDriver \in DriverOutcomes(n)
    /\ ibCall = NoCall
    /\ categories = <<>>
    /\ sortedData = <<>>
    /\ sortPc = "done"
    /\ MigrateIdle
    /\ TransformIdle
    /\ CliIdle

InsertBatchCall ==
    /\ ibCall = NoCall
    /\ ibCall' = InsertBatch(ibAdapter, ibData, ibDriver)
    /\ UNCHANGED <<ibAdapter, ibData, ibDriver, sortVars, migrateVars, transformVars, cliVars>>

BatchNext == InsertBatchCall

SpecBatch == BatchInit /\ [][BatchNext]_vars

----------------------------------------------------------------------------
(* Claims on insertBatch *)

Issued(call, text) == \E k \in 1..Len(call.statements) : call.statements[k].stmt = text

IssuedOk(call, text) ==
    \E k \in 1..Len(call.statements) :
        call.statements[k].stmt = text /\ call.statements[k].ok

InsertAttempted(call, i) ==
    \E k \in 1..Len(call.statements) :
        call.statements[k].stmt = "INSERT" /\ call.statements[k].row = i

FailedRows(driver) == {i \in DOMAIN driver.rows : driver.rows[i] # "ok"}

\* the zero-based batch index an error entry names, -1 when it names none
ErrorRowIndex(e) == IF "index" \in DOMAIN e THEN e.index ELSE -1

\* the batch of C3: BEGIN and COMMIT run, exactly the row at zero-based
\* index 3 (the fourth row) is rejected
OnlyRowThreeFails ==
    /\ ibCall.how # "none"
    /\ ibAdapter = "postgresql"
    /\ ibDriver.connected /\ ibDriver.begin = "ok" /\ ibDriver.commit = "ok"
    /\ FailedRows(ibDriver) = {4}
    /\ ibDriver.rows[4] = "constraint"

\* C3: with exactly the row at zero-based index 3 failing, the BatchResult has
\* processedRows = n - 1, success = false and exactly one error entry, which
\* identifies row index 3; every later row is still inserted and the
\* transaction is committed
C3_PartialFailureIsolation ==
    OnlyRowThreeFails =>
        /\ ibCall.how = "returned"
        /\ ibCall.result.processedRows = Len(ibData) - 1
        /\ ibCall.result.success = FALSE
        /\ Len(ibCall.result.errors) = 1
        /\ ErrorRowIndex(ibCall.result.errors[1]) = 3
        /\ \A i \in 5..Len(ibData) : InsertAttempted(ibCall, i)
        /\ IssuedOk(ibCall, "COMMIT")

\* a connectivity-level exception was raised by BEGIN, a row insert or COMMIT
ConnectivityError(driver) ==
    \/ driver.begin = "fail"
    \/ driver.begin = "ok" /\ \E i \in DOMAIN driver.rows : driver.rows[i] = "connection"
    \/ driver.begin = "ok" /\ driver.commit = "fail"

\* C4: a connectivity-level exception at BEGIN, at a row insert or at COMMIT
\* leads to ROLLBACK instead of COMMIT and to a BatchResult with
\* processedRows = 0 and success = false (stated for a ROLLBACK that itself
\* runs, on a connected adapter)
C4_ConnectivityRollsBack ==
    (/\ ibCall.how # "none"
     /\ Len(ibData) > 0
     /\ ibDriver.connected /\ ibDriver.rollback = "ok"
     /\ ConnectivityError(ibDriver))
        => /\ IssuedOk(ibCall, "ROLLBACK")
           /\ ~IssuedOk(ibCall, "COMMIT")
           /\ ibCall.how = "returned"
           /\ ibCall.result.processedRows = 0
           /\ ibCall.result.success = FALSE

\* C21: a transaction that insertBatch has opened with BEGIN is resolved when
\* the call ends, by returning or by raising: exactly one of COMMIT and
\* ROLLBACK has run successfully
C21_TransactionResolved ==
    (ibCall.how # "none" /\ IssuedOk(ibCall, "BEGIN"))
        => (IssuedOk(ibCall, "COMMIT") /\ ~IssuedOk(ibCall, "ROLLBACK"))
           \/ (IssuedOk(ibCall, "ROLLBACK") /\ ~IssuedOk(ibCall, "COMMIT"))

\* C25: insertBatch ends by returning a BatchResult, never by raising,
\* whatever fails and on both adapters, connected or not
C25_InsertBatchNeverRaises ==
    ibCall.how # "none" => ibCall.how = "returned"

\* C26: a BatchResult returned after COMMIT has processedRows + errors.length
\* = n and success exactly when errors is empty; one returned from the catch
\* block has success = false and errors non-empty; for n = 0 it is
\* {true, 0, []} and no statement is sent
C26_BatchResultShape ==
    ibCall.how = "returned" =>
        LET r == ibCall.result
            n == Len(ibData)
        IN /\ IssuedOk(ibCall, "COMMIT") =>
                 /\ r.processedRows + Len(r.errors) = n
                 /\ r.success <=> (r.errors = <<>>)
           /\ (n > 0 /\ ~IssuedOk(ibCall, "COMMIT")) =>
                 /\ r.success = FALSE
                 /\ r.errors # <<>>
           /\ n = 0 => /\ r = BatchResult(TRUE, 0, <<>>)
                       /\ ibCall.statements = <<>>

\* a committed batch of three rows, one of them rejected
C26_Witness ==
    /\ ibCall.how = "returned"
    /\ IssuedOk(ibCall, "COMMIT")
    /\ Len(ibData) = 3
    /\ ibCall.result.processedRows = 2
    /\ Len(ibCall.result.errors) = 1

----------------------------------------------------------------------------
(* The source database and the row transformation *)

\* the source table with n rows, under its source column names; in CATEGORY
\* row i references row i - 1
SourceTable(table, n) ==
    IF table = "CATEGORY"
    THEN [i \in 1..n |-> [CATEGORY_ID |-> i, PARENT_ID |-> IF i = 1 THEN Null ELSE i - 1]]
    ELSE [i \in 1..n |-> [MOD_REC_ID |-> i]]

\* SELECT * FROM t LIMIT limit OFFSET offset, the query carrying no ORDER BY:
\* the database scans the rows in an order of its choosing, order[k] being
\* the row scanned k-th
SelectPage(rows, off, limit, order) ==
    LET last == IF off + limit < Len(rows) THEN off + limit ELSE Len(rows)
    IN [k \in 1..(IF last > off THEN last - off ELSE 0) |-> rows[order[off + k]]]

\* VerticaAdapter.getRowCount: the count of the COUNT(*) query, 0 when the
\* query throws
GetRowCount(queryOutcome, rows) ==
    IF queryOutcome = "ok" THEN Len(rows) ELSE 0

\* the row transformation of migrateTable / migrateCategoryTable for the key
\* columns: the target names of COLUMN_MAPPINGS, the values passed through
TransformRow(table, row) ==
    IF table = "CATEGORY"
    THEN [id |-> row.CATEGORY_ID, parent_id |-> row.PARENT_ID]
    ELSE [id |-> row.MOD_REC_ID]

\* sourceData.map(row => newRow)
TransformData(table, sourceData) ==
    [k \in 1..Len(sourceData) |-> TransformRow(table, sourceData[k])]

\* the answers of the target driver to a batch of n rows inside migrateTable
\* (the CLI connects both adapters before it calls migrateTable)
MigrateDrivers(n) ==
    {d \in DriverOutcomes(n) :
        /\ d.connected
        /\ d.begin = "ok"
        /\ \A i \in 1..n : d.rows[i] # "connection"}

----------------------------------------------------------------------------
(* The row transformation, column by column *)

\* largest number of columns of a source row
MaxRowCols == 2

\* a dynamically typed value: its typeof / class and its content
Val(t, v) == [t |-> t, v |-> v]

\* null and undefined (the transformation treats them alike)
NullValue == Val("null", "null")

Now == Val("date", "now")

InvalidDate == Val("date", "Invalid Date")

\* the values a source column holds
SourceValues ==
    {NullValue, Val("number", "0"), Val("number", "1"), Val("string", "1"),
     Val("string", "true"), Val("string", " ABCDEFGHIJKL"),
     Val("date", "2020-01-01T00:00:00.000Z")}

\* the source columns of the model
SourceColumns == {"IS_VALID", "CREATED_DATE", "MODIFIED_DATE", "SHORT_CODE", "streaming"}

\* the source tables of the model; COLLECTIONS has no entry in COLUMN_MAPPINGS
MappedTables == {"MODULES", "CAMERA", "CATEGORY", "COLLECTIONS"}

\* COLUMN_MAPPINGS[sourceTable] || {}, for the source columns of the model
COLUMN_MAPPINGS(table) ==
    CASE table = "MODULES" ->
            [c \in {"SHORT_CODE", "IS_VALID", "CREATED_DATE", "MODIFIED_DATE"} |->
                CASE c = "SHORT_CODE" -> "code"
                  [] c = "IS_VALID" -> "is_valid"
                  [] c = "CREATED_DATE" -> "created_at"
                  [] c = "MODIFIED_DATE" -> "updated_at"]
      [] table = "CAMERA" ->
            [c \in {"IS_VALID", "CREATED_DATE", "MODIFIED_DATE", "streaming"} |->
                CASE c = "IS_VALID" -> "is_valid"
                  [] c = "CREATED_DATE" -> "created_at"
                  [] c = "MODIFIED_DATE" -> "modified_date"
                  [] c = "streaming" -> "streaming"]
      [] table = "CATEGORY" ->
            [c \in {"SHORT_CODE", "IS_VALID", "CREATED_DATE", "MODIFIED_DATE"} |->
                CASE c = "SHORT_CODE" -> "code"
                  [] c = "IS_VALID" -> "is_valid"
                  [] c = "CREATED_DATE" -> "created_date"
                  [] c = "MODIFIED_DATE" -> "modified_date"]
      [] OTHER -> [c \in {} |-> ""]

\* sourceCol.toLowerCase()
ToLowerCase(sourceCol) ==
    CASE sourceCol = "IS_VALID" -> "is_valid"
      [] sourceCol = "CREATED_DATE" -> "created_date"
      [] sourceCol = "MODIFIED_DATE" -> "modified_date"
      [] sourceCol = "SHORT_CODE" -> "short_code"
      [] sourceCol = "streaming" -> "streaming"

\* columnMapping[sourceCol] || sourceCol.toLowerCase()
TargetCol(table, sourceCol) ==
    IF sourceCol \in DOMAIN COLUMN_MAPPINGS(table)
    THEN COLUMN_MAPPINGS(table)[sourceCol]
    ELSE ToLowerCase(sourceCol)

\* targetCol.includes('_at') / targetCol.includes('_date')
IncludesAt(targetCol) == targetCol \in {"created_at", "updated_at"}

IncludesDate(targetCol) == targetCol \in {"created_date", "modified_date"}

\* new Date(value) for a string or a number: the epoch for a number, the
\* parsed date for a string the runtime can parse, Invalid Date otherwise
NewDate(value) ==
    CASE value = Val("number", "0") -> Val("date", "1970-01-01T00:00:00.000Z")
      [] value = Val("number", "1") -> Val("date", "1970-01-01T00:00:00.001Z")
      [] value = Val("string", "1") -> Val("date", "2001-01-01T00:00:00.000")
      [] OTHER -> InvalidDate

\* value instanceof Date ? value : new Date(value)
ToDate(value) == IF value.t = "date" THEN value ELSE NewDate(value)

\* String(value).trim(), cut to the 10 characters of VARCHAR(10)
VarcharTruncate(value) ==
    CASE value = Val("string", " ABCDEFGHIJKL") -> Val("string", "ABCDEFGHIJ")
      [] value.t = "number" -> Val("string", value.v)
      [] value.t = "date" -> Val("string", "Wed Jan 01")
      [] OTHER -> value

\* value === 1
IsOne(value) == IF value = Val("number", "1") THEN Val("boolean", "true")
                ELSE Val("boolean", "false")

\* the truthiness the || operator tests
Truthy(value) == value # NullValue /\ value # Val("number", "0")

\* a || b
OrElse(a, b) == IF Truthy(a) THEN a ELSE b

\* row[key], undefined when the row has no such key
Get(row, key) == IF key \in DOMAIN row THEN row[key] ELSE NullValue

\* row[columnMapping['CREATED_DATE'] || 'CREATED_DATE'] || row['CREATED_DATE']
\*     || row['created_date']
CreatedAtValue(table, row) ==
    LET mapped == IF "CREATED_DATE" \in DOMAIN COLUMN_MAPPINGS(table)
                  THEN COLUMN_MAPPINGS(table)["CREATED_DATE"] ELSE "CREATED_DATE"
    IN OrElse(OrElse(Get(row, mapped), Get(row, "CREATED_DATE")), Get(row, "created_date"))

\* the value written for one included column
TransformValue(table, sourceCol, targetCol, value, row, targetColumnNames) ==
    IF value # NullValue
    THEN IF targetCol = "is_valid" /\ value.t = "number" THEN IsOne(value)
         ELSE IF IncludesAt(targetCol) \/ IncludesDate(targetCol) THEN ToDate(value)
         ELSE IF targetCol = "streaming" /\ value.t = "number" THEN IsOne(value)
         ELSE IF table = "CATEGORY" /\ sourceCol = "SHORT_CODE" /\ targetCol = "code"
              THEN VarcharTruncate(value)
         ELSE value
    ELSE IF targetCol \in {"updated_at", "modified_date"} /\ "created_at" \in targetColumnNames
         THEN LET createdAtValue == CreatedAtValue(table, row)
              IN IF createdAtValue # NullValue THEN ToDate(createdAtValue) ELSE Now
         ELSE IF targetCol = "updated_at" \/ IncludesAt(targetCol) THEN Now
         ELSE IF targetCol = "code" /\ table = "CATEGORY" THEN Val("string", "UNKNOWN")
         ELSE NullValue

\* mutant: the test against the target table's columns left out
IncludeColumnMutAlways(targetCol, targetColumnNames) == TRUE

\* targetColumnNames.has(targetCol): columns missing in the target are skipped
IncludeColumn(targetCol, targetColumnNames) == targetCol \in targetColumnNames

\* the callback of sourceData.map: newRow built column by column
TransformSourceRow(table, row, targetColumnNames) ==
    LET kept == {c \in DOMAIN row : IncludeColumn(TargetCol(table, c), targetColumnNames)}
    IN [targetCol \in {TargetCol(table, c) : c \in kept} |->
           LET sourceCol == CHOOSE c \in kept : TargetCol(table, c) = targetCol
           IN TransformValue(table, sourceCol, targetCol, row[sourceCol], row,
                             targetColumnNames)]

\* the source rows of the model: at most MaxRowCols columns
SourceRowsOfModel ==
    UNION {[cols -> SourceValues] :
              cols \in {S \in SUBSET SourceColumns : Cardinality(S) <= MaxRowCols}}

\* what getTableSchema says of a column: missing, nullable or NOT NULL
ColumnStates == {"absent", "nullable", "notnull"}

\* new Set(targetTableSchema.columns.map(col => col.name))
TargetColumnNames(schema) == {t \in DOMAIN schema : schema[t] # "absent"}

\* the target schemas of the model for a row: every state of the columns the
\* row resolves to and of created_at
TargetSchemas(table, row) ==
    [{TargetCol(table, c) : c \in DOMAIN row} \cup {"created_at"} -> ColumnStates]

----------------------------------------------------------------------------
(* SpecTransform *)

TransformInit ==
    /\ trTable \in MappedTables
    /\ trRow \in SourceRowsOfModel
    /\ trSchema \in TargetSchemas(trTable, trRow)
    /\ trBatch = <<>>
    /\ trPc = "idle"
    /\ categories = <<>>
    /\ sortedData = <<>>
    /\ sortPc = "done"
    /\ BatchIdle
    /\ MigrateIdle
    /\ CliIdle

\* transformedData = sourceData.map(...) for the one-row page [trRow]
TransformCall ==
    /\ trPc = "idle"
    /\ trBatch' = <<TransformSourceRow(trTable, trRow, TargetColumnNames(trSchema))>>
    /\ trPc' = "done"
    /\ UNCHANGED <<trTable, trRow, trSchema, sortVars, batchVars, migrateVars, cliVars>>

TransformNext == TransformCall

SpecTransform == TransformInit /\ [][TransformNext]_vars

----------------------------------------------------------------------------
(* Claims on the row transformation *)

\* the source columns of the transformed row whose target column exists
IncludedColumns ==
    {c \in DOMAIN trRow : TargetCol(trTable, c) \in TargetColumnNames(trSchema)}

\* the value written for source column c
Written(c) == trBatch[1][TargetCol(trTable, c)]

\* C11: a null source value bound for a target column the schema marks
\* nullable is written as null; the fallback values (creation timestamp,
\* current time, 'UNKNOWN') go to NOT NULL columns only
C11_NullFallbackExclusivity ==
    trPc = "done" =>
        \A c \in IncludedColumns :
            (trRow[c] = NullValue /\ trSchema[TargetCol(trTable, c)] = "nullable")
                => Written(c) = NullValue

\* the creation timestamp the row carries, NullValue when it carries none
CreationTimestamp(row) == Get(row, "CREATED_DATE")

\* the values C12 allows for a null source value in NOT NULL column targetCol
FallbackValues(targetCol, row) ==
    IF targetCol \in {"updated_at", "modified_date"}
    THEN IF CreationTimestamp(row) # NullValue
         THEN {CreationTimestamp(row), ToDate(CreationTimestamp(row))}
         ELSE {Now}
    ELSE IF targetCol = "code" THEN {Val("string", "UNKNOWN")}
    ELSE {NullValue}

\* C12: a null source value bound for a NOT NULL target column is written as
\* the row's creation timestamp (the current time when the row has none) in
\* updated_at / modified_date, as 'UNKNOWN' in code, as null everywhere else
C12_NullFallbackValues ==
    trPc = "done" =>
        \A c \in IncludedColumns :
            (trRow[c] = NullValue /\ trSchema[TargetCol(trTable, c)] = "notnull")
                => Written(c) \in FallbackValues(TargetCol(trTable, c), trRow)

\* the numeric and numeric-string source values of the model
NumericValues == {Val("number", "0"), Val("number", "1"), Val("string", "1")}

\* C13: a numeric or numeric-string source value bound for is_valid or
\* streaming is written as a boolean: true for 1 and "1", false otherwise
C13_BooleanMapping ==
    trPc = "done" =>
        \A c \in IncludedColumns :
            (TargetCol(trTable, c) \in {"is_valid", "streaming"} /\ trRow[c] \in NumericValues)
                => Written(c) = IF trRow[c] \in {Val("number", "1"), Val("string", "1")}
                                THEN Val("boolean", "true")
                                ELSE Val("boolean", "false")

\* source column c holds a value bound for a timestamp column that is not a
\* Date and does not parse as one
Unparseable(c) ==
    /\ IncludesAt(TargetCol(trTable, c)) \/ IncludesDate(TargetCol(trTable, c))
    /\ trRow[c].t \notin {"null", "date"}
    /\ NewDate(trRow[c]) = InvalidDate

\* C14: a row with an unparseable timestamp value is a per-row error: it is
\* left out of the batch handed to insertBatch, no invalid date is written
C14_UnparseableTimestampIsError ==
    (trPc = "done" /\ \E c \in IncludedColumns : Unparseable(c))
        => /\ trBatch = <<>>
           /\ \A k \in 1..Len(trBatch) : \A t \in DOMAIN trBatch[k] :
                 trBatch[k][t] # InvalidDate

\* the target name C15 gives a source column
ExpectedTarget(table, sourceCol) ==
    IF sourceCol \in DOMAIN COLUMN_MAPPINGS(table)
    THEN COLUMN_MAPPINGS(table)[sourceCol]
    ELSE ToLowerCase(sourceCol)

\* C15: the keys of a transformed row are the resolved target names (the
\* COLUMN_MAPPINGS entry, else the lower-cased source name) of its source
\* columns that the target schema holds, and no other key
C15_KeysAreTargetColumns ==
    trPc = "done" =>
        \A k \in 1..Len(trBatch) :
            /\ DOMAIN trBatch[k] \subseteq TargetColumnNames(trSchema)
            /\ DOMAIN trBatch[k] =
                  {ExpectedTarget(trTable, c) : c \in DOMAIN trRow}
                      \cap TargetColumnNames(trSchema)

\* a row whose CREATED_DATE is kept under its mapped name created_at and
\* whose unmapped column streaming is dropped, the target having no such column
C15_Witness ==
    /\ trPc = "done"
    /\ trTable = "MODULES"
    /\ DOMAIN trRow = {"CREATED_DATE", "streaming"}
    /\ trSchema["streaming"] = "absent"
    /\ DOMAIN trBatch[1] = {"created_at"}

----------------------------------------------------------------------------
(* migrateTable *)

TableNames == {"CATEGORY", "MODULES"}

Init ==
    /\ pc = "schema"
    /\ sourceTable \in TableNames
    /\ \E n \in 0..MaxRows : sourceRows = SourceTable(sourceTable, n)
    /\ dryRun \in BOOLEAN
    /\ batchSize \in 1..MaxBatchSize
    /\ continueOnError \in BOOLEAN
    /\ totalRows = 0
    /\ rowCount = NoCount
    /\ offset = 0
    /\ migratedRows = 0
    /\ result = NoResult
    /\ reads = <<>>
    /\ writes = <<>>
    /\ driverErrors = {}
    /\ events = <<>>
    /\ cancelledAt = NoCancel
    /\ categories = <<>>
    /\ sortedData = <<>>
    /\ sortPc = "done"
    /\ BatchIdle
    /\ TransformIdle
    /\ CliIdle

runConsts == <<sourceTable, sourceRows, dryRun, batchSize, continueOnError>>

\* targetAdapter.getTableSchema(targetTable): it returns, or it throws and
\* migrateTable rethrows
\* mutant: a failed schema lookup is passed over
AfterSchemaMutSwallow(outcome) == "count"

\* where migrateTable goes after getTableSchema: on, or to its catch block
AfterSchema(outcome) == IF outcome = "ok" THEN "count" ELSE "failed"

\* the steps at which a query threw, after a step with this outcome
WithError(errors, step, outcome) ==
    IF outcome = "ok" THEN errors ELSE errors \cup {step}

GetTableSchema ==
    /\ pc = "schema"
    /\ \E outcome \in StmtOutcomes :
          /\ pc' = AfterSchema(outcome)
          /\ driverErrors' = WithError(driverErrors, "schema", outcome)
    /\ UNCHANGED <<runConsts, totalRows, rowCount, offset, migratedRows, result,
                   reads, writes, events, cancelledAt, sortVars, batchVars, transformVars, cliVars>>

\* mutant: the CATEGORY test left out
AfterCountMutNoCategory(dry, table) == IF dry THEN "done" ELSE "loop"

\* mutant: the dryRun test left out
AfterCountMutNoDryRun(dry, table) ==
    IF table = "CATEGORY" THEN "category" ELSE "loop"

\* where migrateTable goes once totalRows is known
AfterCount(dry, table) ==
    IF dry THEN "done" ELSE IF table = "CATEGORY" THEN "category" ELSE "loop"

\* sourceAdapter.getRowCount, then the dryRun test and the CATEGORY test
GetRowCountStep ==
    /\ pc = "count"
    /\ \E outcome \in StmtOutcomes :
          /\ rowCount' = GetRowCount(outcome, sourceRows)
          /\ totalRows' = GetRowCount(outcome, sourceRows)
          /\ driverErrors' = WithError(driverErrors, "count", outcome)
    /\ pc' = AfterCount(dryRun, sourceTable)
    /\ UNCHANGED <<runConsts, offset, migratedRows, result, reads, writes, events,
                   cancelledAt,
                   sortVars, batchVars, transformVars, cliVars>>

\* the while condition, mutant: offset <= totalRows
LoopConditionMutInclusive(off, total) == off <= total

\* while (offset < totalRows)
LoopCondition(off, total) == off < total

\* the start or the end of an operation on page k of the run
Ev(op, k, phase) == [op |-> op, page |-> k, phase |-> phase]

\* await sourceAdapter.getBatchData(...)
ReadEvents(k) == <<Ev("read", k, "start"), Ev("read", k, "end")>>

\* sourceData.map(...), synchronous
TransformEvents(k) == <<Ev("transform", k, "start"), Ev("transform", k, "end")>>

\* mutant: insertBatch called without await, the loop going on before it ends
WriteEventsMutNoAwait(k) == <<Ev("write", k, "start")>>

\* await targetAdapter.insertBatch(...)
WriteEvents(k) == <<Ev("write", k, "start"), Ev("write", k, "end")>>

\* mutant: migratedRows = result.processedRows in place of +=
AccumulateMutAssign(migrated, res) ==
    IF res.success THEN res.processedRows ELSE migrated

\* migratedRows after a batch: counted only when the batch reports success
Accumulate(migrated, res) ==
    IF res.success THEN migrated + res.processedRows ELSE migrated

\* one iteration of the while loop: getBatchData, the transformation,
\* insertBatch, the accounting and offset += batchSize
BatchIteration ==
    /\ pc = "loop"
    /\ LoopCondition(offset, totalRows)
    /\ \/ \* getBatchData throws
          /\ pc' = "failed"
          /\ reads' = Append(reads, [offset |-> offset, limit |-> batchSize, ok |-> FALSE,
                                     rows |-> <<>>])
          /\ driverErrors' = driverErrors \cup {"read"}
          /\ events' = events \o ReadEvents(Len(reads) + 1)
          /\ UNCHANGED <<offset, migratedRows, result, writes>>
       \/ \E order \in Perms(Len(sourceRows)) :
             LET sourceData == SelectPage(sourceRows, offset, batchSize, order)
                 transformedData == TransformData(sourceTable, sourceData)
                 read == [offset |-> offset, limit |-> batchSize, ok |-> TRUE,
                          rows |-> sourceData]
             IN /\ reads' = Append(reads, read)
                /\ UNCHANGED driverErrors
                /\ IF Len(sourceData) = 0
                   THEN /\ pc' = "done"
                        /\ events' = events \o ReadEvents(Len(reads) + 1)
                        /\ UNCHANGED <<offset, migratedRows, result, writes>>
                   ELSE \E driver \in MigrateDrivers(Len(transformedData)) :
                           LET call == InsertBatch("postgresql", transformedData, driver)
                           IN /\ writes' = Append(writes, [data |-> transformedData,
                                                          call |-> call])
                              /\ events' = events \o ReadEvents(Len(reads) + 1)
                                               \o TransformEvents(Len(reads) + 1)
                                               \o WriteEvents(Len(reads) + 1)
                              /\ IF call.how = "raised"
                                 THEN /\ pc' = "failed"
                                      /\ UNCHANGED <<offset, migratedRows, result>>
                                 ELSE /\ result' = call.result
                                      /\ migratedRows' = Accumulate(migratedRows, call.result)
                                      /\ offset' = offset + batchSize
                                      /\ pc' = "loop"
    /\ UNCHANGED <<runConsts, totalRows, rowCount, cancelledAt, sortVars, batchVars,
                   transformVars, cliVars>>

\* the while condition fails: 'Migration completed' is logged
LoopExit ==
    /\ pc = "loop"
    /\ ~LoopCondition(offset, totalRows)
    /\ pc' = "done"
    /\ UNCHANGED <<runConsts, totalRows, rowCount, offset, migratedRows, result,
                   reads, writes, driverErrors, events, cancelledAt, sortVars, batchVars, transformVars, cliVars>>

\* what migrateCategoryTable returns for a BatchResult
CategoryMigrated(res) == IF res.success THEN res.processedRows ELSE 0

\* migrateCategoryTable: one read of totalRows rows, the transformation, the
\* ordering pass, one insertBatch
MigrateCategoryTable ==
    /\ pc = "category"
    /\ \/ /\ pc' = "failed"
          /\ reads' = Append(reads, [offset |-> 0, limit |-> totalRows, ok |-> FALSE,
                                     rows |-> <<>>])
          /\ driverErrors' = driverErrors \cup {"read"}
          /\ events' = events \o ReadEvents(1)
          /\ UNCHANGED <<migratedRows, result, writes>>
       \/ \E order \in Perms(Len(sourceRows)) :
             LET sourceData == SelectPage(sourceRows, 0, totalRows, order)
                 sorted == sortCategoriesHierarchically(TransformData(sourceTable, sourceData))
             IN /\ reads' = Append(reads, [offset |-> 0, limit |-> totalRows, ok |-> TRUE,
                                           rows |-> sourceData])
                /\ UNCHANGED driverErrors
                /\ events' = events \o ReadEvents(1) \o TransformEvents(1) \o WriteEvents(1)
                /\ \E driver \in MigrateDrivers(Len(sorted)) :
                      LET call == InsertBatch("postgresql", sorted, driver)
                      IN /\ writes' = Append(writes, [data |-> sorted, call |-> call])
                         /\ IF call.how = "raised"
                            THEN /\ pc' = "failed"
                                 /\ UNCHANGED <<migratedRows, result>>
                            ELSE /\ result' = call.result
                                 /\ migratedRows' = CategoryMigrated(call.result)
                                 /\ pc' = "done"
    /\ UNCHANGED <<runConsts, totalRows, rowCount, offset, cancelledAt, sortVars,
                   batchVars, transformVars, cliVars>>

\* the operator asks for the run to be cancelled while the batch loop is
\* between two batches
RequestCancel ==
    /\ pc = "loop"
    /\ cancelledAt = NoCancel
    /\ cancelledAt' = Len(reads)
    /\ UNCHANGED <<pc, runConsts, totalRows, rowCount, offset, migratedRows, result,
                   reads, writes, driverErrors, events, sortVars, batchVars,
                   transformVars, cliVars>>

Next ==
    \/ GetTableSchema
    \/ GetRowCountStep
    \/ BatchIteration
    \/ LoopExit
    \/ MigrateCategoryTable
    \/ RequestCancel

Spec == Init /\ [][Next]_vars

\* every awaited call of migrateTable resolves or rejects: the run goes on
\* as long as a step is left
SpecLive == Spec /\ WF_vars(Next)

----------------------------------------------------------------------------
(* Claims on migrateTable *)

\* the run went through the batch loop (not a dry run, not CATEGORY)
LoopRun == ~dryRun /\ sourceTable # "CATEGORY"

\* the pages read so far, one after the other
RECURSIVE ConcatPages(_)
ConcatPages(rs) ==
    IF rs = <<>> THEN <<>> ELSE Head(rs).rows \o ConcatPages(Tail(rs))

\* the sum of processedRows over the insertBatch calls that returned
RECURSIVE SumProcessed(_)
SumProcessed(ws) ==
    IF ws = <<>> THEN 0
    ELSE (IF Head(ws).call.how = "returned" THEN Head(ws).call.result.processedRows ELSE 0)
             + SumProcessed(Tail(ws))

\* the errors of every batch that reported success = false, batch after batch
RECURSIVE AllBatchErrors(_)
AllBatchErrors(ws) ==
    IF ws = <<>> THEN <<>>
    ELSE (IF Head(ws).call.how = "returned" /\ ~Head(ws).call.result.success
          THEN Head(ws).call.result.errors ELSE <<>>)
             \o AllBatchErrors(Tail(ws))

FailedBatch(k) ==
    writes[k].call.how = "returned" /\ ~writes[k].call.result.success

\* ceil(a / b)
CeilDiv(a, b) == (a + b - 1) \div b

C6_OffsetsAndPages ==
    LoopRun =>
        \A k \in 1..Len(reads) :
            /\ reads[k].offset = (k - 1) * batchSize
            /\ \A j \in 1..(k - 1) :
                  Range(reads[j].rows) \cap Range(reads[k].rows) = {}

\* C7: the pages read at offsets 0, limit, 2*limit, ... put together are one
\* read of the whole table: every row once, none skipped
C7_Pagination ==
    (pc = "done" /\ LoopRun /\ rowCount = Len(sourceRows)) =>
        /\ Len(ConcatPages(reads)) = Len(sourceRows)
        /\ Range(ConcatPages(reads)) = Range(sourceRows)

\* the error list the run holds: the errors of the BatchResult in `result`
RunErrorList == result.errors

\* C8: a batch with success = false does not stop the loop: the reads go on
\* at offset + batchSize, every remaining page is read and written, and the
\* errors of all failed batches are kept in one cumulative list
C8_ContinueAndAccumulate ==
    (pc = "done" /\ LoopRun) =>
        /\ Len(reads) = CeilDiv(totalRows, batchSize)
        /\ Len(writes) = Len(reads)
        /\ \A k \in 1..Len(reads) : reads[k].offset = (k - 1) * batchSize
        /\ RunErrorList = AllBatchErrors(writes)

\* C9: with continue_on_error = false the first batch with success = false
\* ends the loop: nothing is read or written after it and the failure is
\* raised to the caller
C9_FailFast ==
    (~continueOnError /\ ~dryRun) =>
        \A k \in 1..Len(writes) :
            FailedBatch(k) => /\ k = Len(writes)
                              /\ Len(reads) = k
                              /\ pc = "failed"

\* every insertBatch call of the run committed its transaction
AllCommitted ==
    \A k \in 1..Len(writes) : IssuedOk(writes[k].call, "COMMIT")

\* C10: at the end of a run that is not a dry run, migratedRows is the sum of
\* processedRows over every insertBatch call of the run, the number of rows
\* committed to the target (stated for runs whose batches all committed, where
\* the two numbers are the same)
C10_MigratedRowsIsSum ==
    (pc = "done" /\ ~dryRun /\ AllCommitted) => migratedRows = SumProcessed(writes)

\* C18: when targetAdapter.getTableSchema throws, migrateTable raises to its
\* caller and makes no getBatchData and no insertBatch call
C18_SchemaFailureIsFatal ==
    "schema" \in driverErrors =>
        /\ pc = "failed"
        /\ reads = <<>>
        /\ writes = <<>>
        /\ rowCount = NoCount

C18_Witness == "schema" \in driverErrors /\ pc = "failed" /\ Len(sourceRows) > 0

\* C19: a connection error on the source adapter, at the row-count query or
\* at a page read, makes migrateTable raise at once; the run never completes
\* normally after it
C19_SourceErrorIsFatal ==
    (driverErrors \cap {"count", "read"} # {}) => pc = "failed"

\* C20: once cancellation is requested (between two batches) no further page
\* is read or written
C20_Cancellation ==
    cancelledAt # NoCancel =>
        /\ Len(reads) = cancelledAt
        /\ Len(writes) <= cancelledAt

\* C22: the batch loop is sequential: every operation that has started has
\* ended before the next one starts, and the read of page k + 1 starts only
\* after the write of page k has ended
C22_SequentialLoop ==
    LoopRun =>
        \A i \in 1..Len(events) :
            /\ events[i].phase = "start" =>
                  /\ i < Len(events)
                  /\ events[i + 1] = Ev(events[i].op, events[i].page, "end")
            /\ (events[i] = Ev("read", events[i].page, "start") /\ events[i].page > 1) =>
                  \E j \in 1..(i - 1) : events[j] = Ev("write", events[i].page - 1, "end")

C22_Witness == LoopRun /\ pc = "done" /\ Len(writes) = 3 /\ Len(events) > 12

\* C23: a run on CATEGORY that is not a dry run makes one getBatchData call,
\* at offset 0 with limit totalRows, and one insertBatch call, handing it the
\* ordering pass of the whole transformed row set, whatever batchSize is
C23_CategoryBypassesLoop ==
    (pc = "done" /\ sourceTable = "CATEGORY" /\ ~dryRun) =>
        /\ Len(reads) = 1
        /\ reads[1].offset = 0
        /\ reads[1].limit = totalRows
        /\ Len(writes) = 1
        /\ Len(writes[1].data) = totalRows
        /\ writes[1].data =
              sortCategoriesHierarchically(TransformData("CATEGORY", reads[1].rows))

\* three CATEGORY rows migrated with batchSize 1
C23_Witness ==
    /\ pc = "done" /\ sourceTable = "CATEGORY" /\ ~dryRun
    /\ batchSize = 1
    /\ totalRows = 3
    /\ Len(writes) = 1

\* the run has ended, normally or by raising
Terminated == pc \in {"done", "failed"}

\* C27: the batch loop ends: it makes at most ceil(totalRows / batchSize)
\* iterations, and when it ends normally the last page was empty or
\* offset >= totalRows, whatever the batch writes returned
C27_LoopTerminates ==
    /\ [](LoopRun =>
             /\ Len(reads) <= CeilDiv(totalRows, batchSize)
             /\ pc = "done" =>
                   \/ offset >= totalRows
                   \/ reads # <<>> /\ reads[Len(reads)].rows = <<>>)
    /\ <>Terminated

\* two iterations for two rows, the first batch having failed
C27_Witness ==
    /\ LoopRun /\ pc = "done"
    /\ totalRows = 2 /\ batchSize = 1
    /\ Len(reads) = 2
    /\ FailedBatch(1)

\* the number of source rows the pages read so far hold
RowsRead == Len(ConcatPages(reads))

\* C30: in the batch loop migratedRows is never negative, never decreases and
\* never exceeds the number of source rows read so far, hence never the
\* number of iterations times batchSize
C30_MigratedRowsBounded ==
    /\ [](LoopRun =>
             /\ migratedRows >= 0
             /\ migratedRows <= RowsRead
             /\ RowsRead <= Len(reads) * batchSize)
    /\ [][migratedRows' >= migratedRows]_vars

C30_Witness == LoopRun /\ pc = "done" /\ migratedRows = 3 /\ Len(writes) = 2

----------------------------------------------------------------------------
(* The adapters' connection lifecycle *)

\* number of TABLE_MAPPINGS entries migrate-all goes through
MaxTables == 4

\* the CLI's two adapters and their classes
AdapterNames == {"source", "target"}

AdapterKind(a) == IF a = "source" THEN "vertica" ELSE "postgresql"

\* connect(): it resolves, the server cannot be reached, or the session
\* handshake on the opened connection fails
ConnectOutcomes == {"ok", "refused", "handshake"}

\* the probe query SELECT 1: it throws, returns no row, returns a row
ProbeOutcomes == {"fail", "empty", "row"}

\* connect() of VerticaAdapter / PostgreSQLAdapter on adapter state st
Connect(kind, st, outcome) ==
    IF kind = "vertica"
    THEN CASE outcome = "ok" ->
                 [state |-> [st EXCEPT !.connection = TRUE, !.isConnected = TRUE],
                  raised |-> FALSE]
           [] outcome = "refused" -> [state |-> st, raised |-> TRUE]
           [] OTHER -> [state |-> [st EXCEPT !.connection = TRUE], raised |-> TRUE]
    ELSE IF outcome = "ok"
         THEN [state |-> [st EXCEPT !.pool = TRUE, !.connection = TRUE,
                                    !.isConnected = TRUE],
               raised |-> FALSE]
         ELSE [state |-> [st EXCEPT !.pool = TRUE], raised |-> TRUE]

\* disconnect(): VerticaAdapter drops a held connection; PostgreSQLAdapter
\* releases the client and awaits pool.end(), which may reject
Disconnect(kind, st, outcome) ==
    IF kind = "vertica"
    THEN [state |-> IF st.connection THEN AdapterNew ELSE st, raised |-> FALSE]
    ELSE IF st.pool /\ outcome = "fail"
         THEN [state |-> [st EXCEPT !.connection = FALSE], raised |-> TRUE]
         ELSE [state |-> AdapterNew, raised |-> FALSE]

\* mutant: the catch block rethrows
TestConnectionCatchMutRethrow(st, probed) ==
    [state |-> st, how |-> "raised", value |-> FALSE, probed |-> probed]

\* the catch block of testConnection: emitError, return false
TestConnectionCatch(st, probed) ==
    [state |-> st, how |-> "returned", value |-> FALSE, probed |-> probed]

\* testConnection(): connect unless a connection / client is held, run the
\* probe, return rows.length > 0
TestConnection(kind, st, connectOutcome, probeOutcome) ==
    LET c == IF st.connection THEN [state |-> st, raised |-> FALSE]
             ELSE Connect(kind, st, connectOutcome)
    IN IF c.raised THEN TestConnectionCatch(c.state, "none")
       ELSE IF probeOutcome = "fail" THEN TestConnectionCatch(c.state, "fail")
       ELSE [state |-> c.state, how |-> "returned", value |-> probeOutcome = "row",
             probed |-> probeOutcome]

----------------------------------------------------------------------------
(* The CLI commands migrate-table, migrate-all and validate *)

Commands == {"migrate-table", "migrate-all", "validate"}

\* the tables a command migrates
TableCount(command) == IF command = "migrate-table" THEN 1 ELSE MaxTables

\* loadConfig() returns or throws; validate also tests validateConfig().isValid
ConfigOutcomes(command) ==
    IF command = "validate" THEN {"ok", "throws", "invalid"} ELSE {"ok", "throws"}

CliInit ==
    /\ cmd \in Commands
    /\ cliPc = "start"
    /\ adapterState = [a \in AdapterNames |-> AdapterNew]
    /\ connectOk = {}
    /\ disconnectCalls = {}
    /\ testCalls = [a \in AdapterNames |-> NoTest]
    /\ attempts = <<>>
    /\ successCount = 0
    /\ failureCount = 0
    /\ exitCode = Running
    /\ LifeIdle
    /\ categories = <<>>
    /\ sortedData = <<>>
    /\ sortPc = "done"
    /\ BatchIdle
    /\ MigrateIdle
    /\ TransformIdle

cliConsts == <<cmd, sortVars, batchVars, migrateVars, transformVars, lifeVars>>

\* process.exit(code), or the action returning (code 0)
Exit(code) == cliPc' = "exited" /\ exitCode' = code

\* migrate-table: the TABLE_MAPPINGS lookup of options.table
LookupTable ==
    /\ cliPc = "start"
    /\ cmd = "migrate-table"
    /\ \E known \in BOOLEAN :
          IF known THEN cliPc' = "config" /\ UNCHANGED exitCode ELSE Exit(1)
    /\ UNCHANGED <<cliConsts, adapterState, connectOk, disconnectCalls, testCalls,
                   attempts, successCount, failureCount>>

\* configManager.loadConfig(); validate also runs validateConfig()
LoadConfig ==
    /\ \/ cliPc = "config"
       \/ cliPc = "start" /\ cmd # "migrate-table"
    /\ \E outcome \in ConfigOutcomes(cmd) :
          IF outcome = "ok"
          THEN /\ cliPc' = IF cmd = "validate" THEN "testSource" ELSE "connectSource"
               /\ UNCHANGED exitCode
          ELSE Exit(1)
    /\ UNCHANGED <<cliConsts, adapterState, connectOk, disconnectCalls, testCalls,
                   attempts, successCount, failureCount>>

\* await adapter.connect() of migrate-table / migrate-all
ConnectStep(a, next) ==
    /\ \E outcome \in ConnectOutcomes :
          LET c == Connect(AdapterKind(a), adapterState[a], outcome)
          IN /\ adapterState' = [adapterState EXCEPT ![a] = c.state]
             /\ IF c.raised
                THEN Exit(1) /\ UNCHANGED connectOk
                ELSE /\ cliPc' = next
                     /\ connectOk' = connectOk \cup {a}
                     /\ UNCHANGED exitCode
    /\ UNCHANGED <<cliConsts, disconnectCalls, testCalls, attempts, successCount,
                   failureCount>>

ConnectSource == cliPc = "connectSource" /\ ConnectStep("source", "connectTarget")

ConnectTarget == cliPc = "connectTarget" /\ ConnectStep("target", "migrate")

\* await migrateTable(...): it returns or it throws; migrate-all counts the
\* outcome and goes on, migrate-table leaves through its catch block
RunMigrateTable ==
    /\ cliPc = "migrate"
    /\ Len(attempts) < TableCount(cmd)
    /\ \E outcome \in {"returned", "raised"} :
          /\ attempts' = Append(attempts, [table |-> Len(attempts) + 1,
                                           outcome |-> outcome])
          /\ IF outcome = "returned"
             THEN /\ successCount' = successCount + 1
                  /\ cliPc' = IF Len(attempts) + 1 = TableCount(cmd)
                              THEN "disconnectSource" ELSE "migrate"
                  /\ UNCHANGED <<failureCount, exitCode>>
             ELSE IF cmd = "migrate-table"
                  THEN Exit(1) /\ UNCHANGED <<successCount, failureCount>>
                  ELSE /\ failureCount' = failureCount + 1
                       /\ cliPc' = IF Len(attempts) + 1 = TableCount(cmd)
                                   THEN "disconnectSource" ELSE "migrate"
                       /\ UNCHANGED <<successCount, exitCode>>
    /\ UNCHANGED <<cliConsts, adapterState, connectOk, disconnectCalls, testCalls>>

\* await sourceAdapter.disconnect()
DisconnectSource ==
    /\ cliPc = "disconnectSource"
    /\ LET d == Disconnect(AdapterKind("source"), adapterState["source"], "ok")
       IN adapterState' = [adapterState EXCEPT !["source"] = d.state]
    /\ disconnectCalls' = disconnectCalls \cup {"source"}
    /\ cliPc' = "disconnectTarget"
    /\ UNCHANGED <<cliConsts, connectOk, testCalls, attempts, successCount,
                   failureCount, exitCode>>

\* mutant: the summary never ends the process with status 1
ExitStatusMutAlwaysZero(command, failures) == 0

\* the status the command ends with after the disconnects: migrate-all calls
\* process.exit(1) when failureCount is not 0
ExitStatus(command, failures) ==
    IF command = "migrate-all" /\ failures > 0 THEN 1 ELSE 0

\* await targetAdapter.disconnect(), then the summary and the exit status
DisconnectTarget ==
    /\ cliPc = "disconnectTarget"
    /\ disconnectCalls' = disconnectCalls \cup {"target"}
    /\ \E outcome \in {"ok", "fail"} :
          LET d == Disconnect(AdapterKind("target"), adapterState["target"], outcome)
          IN /\ adapterState' = [adapterState EXCEPT !["target"] = d.state]
             /\ IF d.raised THEN Exit(1)
                ELSE Exit(ExitStatus(cmd, failureCount))
    /\ UNCHANGED <<cliConsts, connectOk, testCalls, attempts, successCount,
                   failureCount>>

\* validate: await adapter.testConnection(), then disconnect() when it
\* returned true
TestStep(a, next) ==
    /\ \E connectOutcome \in ConnectOutcomes, probeOutcome \in ProbeOutcomes,
          endOutcome \in {"ok", "fail"} :
          LET t == TestConnection(AdapterKind(a), adapterState[a], connectOutcome,
                                  probeOutcome)
              d == Disconnect(AdapterKind(a), t.state, endOutcome)
          IN /\ testCalls' = [testCalls EXCEPT ![a] = [how |-> t.how, value |-> t.value,
                                                       probed |-> t.probed]]
             /\ connectOk' = IF t.state.isConnected THEN connectOk \cup {a} ELSE connectOk
             /\ IF t.how = "raised"
                THEN /\ adapterState' = [adapterState EXCEPT ![a] = t.state]
                     /\ Exit(1)
                     /\ UNCHANGED disconnectCalls
                ELSE IF t.value
                THEN /\ adapterState' = [adapterState EXCEPT ![a] = d.state]
                     /\ disconnectCalls' = disconnectCalls \cup {a}
                     /\ IF d.raised THEN Exit(1)
                        ELSE IF next = "exited"
                        THEN Exit(IF testCalls["source"].value THEN 0 ELSE 1)
                        ELSE cliPc' = next /\ UNCHANGED exitCode
                ELSE /\ adapterState' = [adapterState EXCEPT ![a] = t.state]
                     /\ UNCHANGED disconnectCalls
                     /\ IF next = "exited" THEN Exit(1)
                        ELSE cliPc' = next /\ UNCHANGED exitCode
    /\ UNCHANGED <<cliConsts, attempts, successCount, failureCount>>

TestSource == cliPc = "testSource" /\ TestStep("source", "testTarget")

TestTarget == cliPc = "testTarget" /\ TestStep("target", "exited")

CliNext ==
    \/ LookupTable
    \/ LoadConfig
    \/ ConnectSource
    \/ ConnectTarget
    \/ RunMigrateTable
    \/ DisconnectSource
    \/ DisconnectTarget
    \/ TestSource
    \/ TestTarget

SpecCli == CliInit /\ [][CliNext]_vars

----------------------------------------------------------------------------
(* Claims on the CLI commands and on testConnection *)

\* C16: when migrate-table or migrate-all ends, disconnect() has been called
\* on every adapter whose connect() succeeded, whatever path led to the end
C16_ConnectionRelease ==
    (cliPc = "exited" /\ cmd \in {"migrate-table", "migrate-all"})
        => connectOk \subseteq disconnectCalls

\* C17: testConnection never raises: it returns a boolean, true exactly when
\* the probe query ran and returned at least one row
C17_TestConnectionNeverRaises ==
    \A a \in AdapterNames :
        testCalls[a] # NoTest =>
            /\ testCalls[a].how = "returned"
            /\ testCalls[a].value \in BOOLEAN
            /\ testCalls[a].value <=> (testCalls[a].probed = "row")

\* migrate-all has ended after connecting both adapters
MigrateAllEnded ==
    cmd = "migrate-all" /\ cliPc = "exited" /\ connectOk = AdapterNames

\* every table was attempted once, in declaration order, and counted
AllTablesAttempted ==
    /\ Len(attempts) = MaxTables
    /\ \A k \in 1..Len(attempts) : attempts[k].table = k
    /\ successCount + failureCount = MaxTables
    /\ failureCount = Cardinality({k \in 1..Len(attempts) : attempts[k].outcome = "raised"})

\* targetAdapter.disconnect() threw: the pool it could not end is still held
TargetDisconnectThrew == adapterState["target"].pool

\* C28 as stated: migrate-all attempts every table once, in order, a failed
\* table not stopping the later ones; successCount + failureCount is the number
\* of tables; the exit status is 1 exactly when failureCount > 0
C28_MigrateAllAsStated ==
    MigrateAllEnded =>
        /\ AllTablesAttempted
        /\ exitCode = 1 <=> failureCount > 0

\* C28, amended: as above, the exit status being 1 exactly when
\* failureCount > 0 or the final disconnect() threw
C28_MigrateAll ==
    MigrateAllEnded =>
        /\ AllTablesAttempted
        /\ exitCode \in {0, 1}
        /\ exitCode = 1 <=> (failureCount > 0 \/ TargetDisconnectThrew)

\* the first table failed, later ones were migrated, the disconnects ran
C28_Witness ==
    /\ MigrateAllEnded
    /\ attempts[1].outcome = "raised"
    /\ attempts[MaxTables].outcome = "returned"
    /\ ~TargetDisconnectThrew
    /\ exitCode = 1

\* the source's connect() failed and the target's probe returned a row
C17_Witness ==
    /\ testCalls["source"] = [how |-> "returned", value |-> FALSE, probed |-> "none"]
    /\ testCalls["target"] = [how |-> "returned", value |-> TRUE, probed |-> "row"]

----------------------------------------------------------------------------
(* One adapter under any sequence of connect, disconnect, testConnection and
   executeQuery calls *)

\* the calls made on the adapter in one run
MaxCalls == 4

\* the message executeQuery throws when no connection / client is held
NotConnected == "Database not connected"

\* what the driver answers to a query that is sent
QueryOutcomes == {"rows", "query failed"}

\* isConnectionActive(): the isConnected flag
IsConnectionActive(st) == st.isConnected

\* executeQuery(): throws NotConnected unless a connection / client is held,
\* else resolves with the driver's rows or rejects with its error
ExecuteQuery(kind, st, outcome) ==
    IF ~st.connection THEN NotConnected ELSE outcome

LifeInit ==
    /\ adKind \in {"vertica", "postgresql"}
    /\ adState = AdapterNew
    /\ adLast = NoLifeCall
    /\ adCalls = 0
    /\ CommandIdle
    /\ categories = <<>>
    /\ sortedData = <<>>
    /\ sortPc = "done"
    /\ BatchIdle
    /\ MigrateIdle
    /\ TransformIdle

lifeConsts == <<adKind, sortVars, batchVars, migrateVars, transformVars, commandVars>>

\* one more call on the adapter: its state after the call and how it ended
LifeCall(op, st, raised, error) ==
    /\ adCalls < MaxCalls
    /\ adCalls' = adCalls + 1
    /\ adState' = st
    /\ adLast' = [op |-> op, before |-> adState, raised |-> raised, error |-> error]
    /\ UNCHANGED lifeConsts

LifeConnect ==
    \E outcome \in ConnectOutcomes :
        LET c == Connect(adKind, adState, outcome)
        IN LifeCall("connect", c.state, c.raised,
                    IF c.raised THEN outcome ELSE "none")

LifeDisconnect ==
    \E outcome \in {"ok", "fail"} :
        LET d == Disconnect(adKind, adState, outcome)
        IN LifeCall("disconnect", d.state, d.raised,
                    IF d.raised THEN "pool.end failed" ELSE "none")

LifeTestConnection ==
    \E connectOutcome \in ConnectOutcomes, probeOutcome \in ProbeOutcomes :
        LET t == TestConnection(adKind, adState, connectOutcome, probeOutcome)
        IN LifeCall("testConnection", t.state, t.how = "raised", "none")

LifeExecuteQuery ==
    \E outcome \in QueryOutcomes :
        LET e == ExecuteQuery(adKind, adState, outcome)
        IN LifeCall("executeQuery", adState, e # "rows",
                    IF e = "rows" THEN "none" ELSE e)

LifeNext ==
    \/ LifeConnect
    \/ LifeDisconnect
    \/ LifeTestConnection
    \/ LifeExecuteQuery

SpecAdapter == LifeInit /\ [][LifeNext]_vars

\* C29: over any sequence of connect, disconnect and testConnection calls,
\* isConnectionActive() is true only while a connection / client is held;
\* after a failed connect() it is false; after disconnect() returns it is
\* false and executeQuery raises "Database not connected"; disconnect() on an
\* adapter that is not connected does not raise
C29_ConnectionState ==
    /\ IsConnectionActive(adState) => adState.connection
    /\ (adLast.op = "connect" /\ adLast.raised) => ~IsConnectionActive(adState)
    /\ (adLast.op = "disconnect" /\ ~adLast.raised) =>
          (/\ ~IsConnectionActive(adState)
           /\ \A o \in QueryOutcomes : ExecuteQuery(adKind, adState, o) = NotConnected)
    /\ (adLast.op = "disconnect" /\ ~IsConnectionActive(adLast.before)) =>
          ~adLast.raised

----------------------------------------------------------------------------
(* Inputs of the ordering pass: category forests *)

\* the ancestors of id i reached in at most k parent steps
RECURSIVE Ancestors(_, _, _)
Ancestors(parent, i, k) ==
    IF k = 0 \/ parent[i] = Null THEN {}
    ELSE {parent[i]} \cup Ancestors(parent, parent[i], k - 1)

\* parent functions over ids 1..n without a cycle
Forests(n) ==
    {parent \in [1..n -> {Null} \cup 1..n] :
        \A i \in 1..n : i \notin Ancestors(parent, i, n)}

\* the rows of a forest in the order perm
RowsOf(parent, perm) ==
    [k \in 1..Len(perm) |-> [id |-> perm[k], parent_id |-> parent[perm[k]]]]

CategoryInputs ==
    UNION {{RowsOf(parent, perm) : parent \in Forests(n), perm \in Perms(n)} : n \in 0..MaxCats}

----------------------------------------------------------------------------
(* SpecSort *)

SortInit ==
    /\ categories \in CategoryInputs
    /\ sortedData = <<>>
    /\ sortPc = "idle"
    /\ BatchIdle
    /\ MigrateIdle
    /\ TransformIdle
    /\ CliIdle

SortCall ==
    /\ sortPc = "idle"
    /\ sortedData' = sortCategoriesHierarchically(categories)
    /\ sortPc' = "done"
    /\ UNCHANGED <<categories, batchVars, migrateVars, transformVars, cliVars>>

SortNext == SortCall

SpecSort == SortInit /\ [][SortNext]_vars

----------------------------------------------------------------------------
(* Claims on the ordering pass *)

IndexOf(s, id) == CHOOSE k \in 1..Len(s) : s[k].id = id

\* every parent row is placed before each of its child rows
ParentsFirst(s) ==
    \A p, r \in 1..Len(s) :
        (s[r].parent_id # Null /\ s[r].parent_id = s[p].id) => p < r

\* C1: for every input permutation of a row set with unique ids the output
\* places every row P before every row R whose non-null parent_id is P.id
C1_ParentsBeforeChildren ==
    sortPc = "done" => ParentsFirst(sortedData)

\* the scenario input of C2
ScenarioInput ==
    <<[id |-> 3, parent_id |-> 2], [id |-> 1, parent_id |-> Null], [id |-> 2, parent_id |-> 1]>>

\* C2: the rows {1,null}, {2,1}, {3,2} given in input order [3,1,2] are
\* returned in the order [1,2,3]
C2_Scenario ==
    (sortPc = "done" /\ categories = ScenarioInput)
        => sortedData = <<[id |-> 1, parent_id |-> Null], [id |-> 2, parent_id |-> 1],
                          [id |-> 3, parent_id |-> 2]>>

C2_Witness == sortPc = "done" /\ categories = ScenarioInput

\* the positions of s holding a row without a parent
RootPositions(s) == {k \in 1..Len(s) : s[k].parent_id = Null}

\* the ids of the rows of s without a parent, in the order of s
RECURSIVE RootIds(_)
RootIds(s) ==
    IF s = <<>> THEN <<>>
    ELSE (IF Head(s).parent_id = Null THEN <<Head(s).id>> ELSE <<>>) \o RootIds(Tail(s))

\* C24: the output holds the rows of the input, each once; the rows with a
\* null parent_id come first, in their input order, the others after them
C24_RootsFirstPermutation ==
    sortPc = "done" =>
        /\ Len(sortedData) = Len(categories)
        /\ Range(sortedData) = Range(categories)
        /\ RootPositions(sortedData) = 1..Cardinality(RootPositions(categories))
        /\ RootIds(sortedData) = RootIds(categories)

\* two roots given in the order 3, 1 around a child and followed by another
C24_Witness ==
    /\ sortPc = "done"
    /\ Len(categories) = 4
    /\ RootIds(categories) = <<3, 1>>
    /\ categories[1].parent_id # Null
    /\ RootIds(sortedData) = <<3, 1>>

====
